---------------------------- MODULE Spec2Model ----------------------------
(***************************************************************************)
(* Model of the Reframe backend (src/server.js): the reframe request       *)
(* handler with its template registry, intent classifier and response      *)
(* formatter, and the ambiguity detector.                                  *)
(*                                                                         *)
(* A JavaScript string is a sequence of one-character strings, so that     *)
(* trimming, splitting, substring search and regular-expression matching   *)
(* are computed on the characters as the code computes them.  An absent    *)
(* (undefined) property of a request body is a field the record lacks.     *)
(***************************************************************************)
EXTENDS Integers, Sequences, FiniteSets, TLC

(***************************************************************************)
(* Bounds of the model.                                                    *)
(***************************************************************************)
\* number of reframe requests that can be in flight together
MaxReq == 2
\* number of distinct clock readings new Date() can return
MaxClock == 1

\* largest number of lines of a restructured text
MaxLines == 3

\* number of times a client submits its prompt to the ambiguity endpoint
MaxCalls == 2
\* largest number of filler words appended to a prompt
MaxPad == 10

(***************************************************************************)
(* State.                                                                  *)
(***************************************************************************)
VARIABLES
    apiKey,     \* process.env.OPENAI_API_KEY is set
    phase,      \* "boot", "listening" or "crashed"
    templates,  \* the MODEL_TEMPLATES object
    pc,         \* per request: "idle", "awaiting" or "done"
    reqBody,    \* per request: << >> or << req.body >>
    calls,      \* per request: the calls made to the generation service
    outcome,    \* per request: << >> or << how its call settled >>
    replies     \* per request: the responses sent

\* the ambiguity endpoint
VARIABLES
    detPrompt,       \* the prompt a client submits to /api/check-ambiguity
    detCalls,        \* how many times it has submitted it
    detReply,        \* << >> or << the latest response >>
    vagueLastIndex   \* lastIndex of the latest vagueQuantifiers regex object

\* the two helpers of the handler exercised on their own
VARIABLES
    imgPrompt,   \* the prompt handed to isImageGenerationRequest
    imgResult,   \* << >> or << what it returned >>
    fmtText,     \* the restructured text handed to formatForModel
    fmtOut       \* << >> or << the envelope it returned >>

srvVars == << apiKey, phase, templates, pc, reqBody, calls, outcome, replies >>

detVars == << detPrompt, detCalls, detReply, vagueLastIndex >>

fnVars == << imgPrompt, imgResult, fmtText, fmtOut >>

vars == << srvVars, detVars, fnVars >>

(***************************************************************************)
(* String primitives of the JavaScript runtime used by the code.           *)
(***************************************************************************)
UpperAlpha ==
    << "A", "B", "C", "D", "E", "F", "G", "H", "I", "J", "K", "L", "M",
       "N", "O", "P", "Q", "R", "S", "T", "U", "V", "W", "X", "Y", "Z" >>

LowerAlpha ==
    << "a", "b", "c", "d", "e", "f", "g", "h", "i", "j", "k", "l", "m",
       "n", "o", "p", "q", "r", "s", "t", "u", "v", "w", "x", "y", "z" >>

Digits == {"0", "1", "2", "3", "4", "5", "6", "7", "8", "9"}

\* the characters String.prototype.trim removes and the regex class \s matches
WhiteSpace == {" ", "\t", "\n"}

\* the regex class \w: [A-Za-z0-9_]
WordChars ==
    {UpperAlpha[i] : i \in 1..26} \cup {LowerAlpha[i] : i \in 1..26} \cup Digits \cup {"_"}

IsWordChar(c) == c \in WordChars

\* the lower-case letter of each upper-case letter
LowerOf == [c \in {UpperAlpha[i] : i \in 1..26} |->
              LowerAlpha[CHOOSE i \in 1..26 : UpperAlpha[i] = c]]

LowerChar(c) == IF c \in DOMAIN LowerOf THEN LowerOf[c] ELSE c

\* String.prototype.toLowerCase
ToLowerCase(s) == [i \in 1..Len(s) |-> LowerChar(s[i])]

RECURSIVE TrimStart(_)
TrimStart(s) ==
    IF s = << >> THEN s
    ELSE IF Head(s) \in WhiteSpace THEN TrimStart(Tail(s)) ELSE s

RECURSIVE TrimEnd(_)
TrimEnd(s) ==
    IF s = << >> THEN s
    ELSE IF s[Len(s)] \in WhiteSpace THEN TrimEnd(SubSeq(s, 1, Len(s) - 1)) ELSE s

\* String.prototype.trim
Trim(s) == TrimEnd(TrimStart(s))

\* the text of s at offset i (1-based) is sub
MatchesAt(s, i, sub) ==
    /\ i >= 1
    /\ i + Len(sub) - 1 <= Len(s)
    /\ SubSeq(s, i, i + Len(sub) - 1) = sub

\* String.prototype.includes
Includes(s, sub) == \E i \in 1..(Len(s) + 1) : MatchesAt(s, i, sub)

\* String.prototype.startsWith
StartsWith(s, sub) == MatchesAt(s, 1, sub)

\* String.prototype.split with a one-character separator: always at least one
\* part, an empty part between two adjacent separators
RECURSIVE SplitFrom(_, _, _)
SplitFrom(s, sep, cur) ==
    IF s = << >> THEN << cur >>
    ELSE IF Head(s) = sep THEN << cur >> \o SplitFrom(Tail(s), sep, << >>)
    ELSE SplitFrom(Tail(s), sep, Append(cur, Head(s)))

Split(s, sep) == SplitFrom(s, sep, << >>)

\* Array.prototype.join with a one-character separator
RECURSIVE Join(_, _)
Join(parts, sep) ==
    IF parts = << >> THEN << >>
    ELSE IF Len(parts) = 1 THEN parts[1]
    ELSE parts[1] \o << sep >> \o Join(Tail(parts), sep)

\* Array.prototype.some over a list of keywords
SomeIncluded(keywords, s) == \E k \in 1..Len(keywords) : Includes(s, keywords[k])

(***************************************************************************)
(* Template registry (MODEL_TEMPLATES) and the image template.  A template *)
(* text is named by its place in the source: two templates are the same    *)
(* text exactly when they have the same name.                              *)
(***************************************************************************)
ModelIds == {"chatgpt", "claude", "gemini", "perplexity", "others"}

MODEL_TEMPLATES ==
    [m \in ModelIds |-> [systemPrompt |-> << "MODEL_TEMPLATES", m, "systemPrompt" >>]]

IMAGE_GENERATION_SYSTEM_PROMPT == << "IMAGE_GENERATION_SYSTEM_PROMPT" >>

\* property names every object literal inherits from Object.prototype
ObjectPrototypeKeys ==
    { "constructor", "toString", "valueOf", "hasOwnProperty", "isPrototypeOf",
      "propertyIsEnumerable", "toLocaleString", "__proto__" }

\* the value of a property read that finds nothing
JsUndefined == << "undefined" >>

\* the value of registry[model] as a condition: an own template and an
\* inherited property are both truthy, a missing property is undefined
TemplateTruthy(registry, model) ==
    model \in DOMAIN registry \/ model \in ObjectPrototypeKeys

\* registry[model].systemPrompt: an inherited property (a function or the
\* prototype object) has no systemPrompt
TemplateSystemPrompt(registry, model) ==
    IF model \in DOMAIN registry THEN registry[model].systemPrompt ELSE JsUndefined

(***************************************************************************)
(* Intent classifier.                                                      *)
(***************************************************************************)
imageKeywords ==
    << <<"i", "m", "a", "g", "e">>,
       <<"p", "i", "c", "t", "u", "r", "e">>,
       <<"p", "h", "o", "t", "o">>,
       <<"v", "i", "s", "u", "a", "l">>,
       <<"g", "r", "a", "p", "h", "i", "c">>,
       <<"i", "l", "l", "u", "s", "t", "r", "a", "t", "i", "o", "n">>,
       <<"a", "r", "t", "w", "o", "r", "k">>,
       <<"t", "h", "u", "m", "b", "n", "a", "i", "l">>,
       <<"p", "o", "s", "t", "e", "r">>,
       <<"b", "a", "n", "n", "e", "r">> >>

creationVerbs ==
    << <<"c", "r", "e", "a", "t", "e">>,
       <<"g", "e", "n", "e", "r", "a", "t", "e">>,
       <<"m", "a", "k", "e">>,
       <<"d", "e", "s", "i", "g", "n">>,
       <<"d", "r", "a", "w">>,
       <<"p", "r", "o", "d", "u", "c", "e">>,
       <<"c", "r", "a", "f", "t">> >>

qualityKeywords ==
    << <<"h", "i", "g", "h", " ", "q", "u", "a", "l", "i", "t", "y">>,
       <<"v", "i", "b", "r", "a", "n", "t">>,
       <<"e", "y", "e", "-", "c", "a", "t", "c", "h", "i", "n", "g">>,
       <<"u", "l", "t", "r", "a">>,
       <<"s", "t", "u", "n", "n", "i", "n", "g">>,
       <<"d", "r", "a", "m", "a", "t", "i", "c">>,
       <<"c", "i", "n", "e", "m", "a", "t", "i", "c">> >>

\* the classifier without the lower-casing of line 405
isImageGenerationRequest_CaseSensitive(prompt) ==
    /\ SomeIncluded(imageKeywords, prompt)
    /\ \/ SomeIncluded(creationVerbs, prompt)
       \/ SomeIncluded(qualityKeywords, prompt)

isImageGenerationRequest(prompt) ==
    LET lowerPrompt == ToLowerCase(prompt)
        hasImageKeyword == SomeIncluded(imageKeywords, lowerPrompt)
        hasCreationVerb == SomeIncluded(creationVerbs, lowerPrompt)
        hasQualityKeyword == SomeIncluded(qualityKeywords, lowerPrompt)
    IN  hasImageKeyword /\ (hasCreationVerb \/ hasQualityKeyword)

(***************************************************************************)
(* Response formatter.                                                     *)
(***************************************************************************)
\* the loop of extractSystemPrompt stopping at any line that starts with '#'
\* once trimmed, the first line included
RECURSIVE SystemLines_AnyHeading(_, _)
SystemLines_AnyHeading(lines, systemContent) ==
    IF lines = << >> THEN systemContent
    ELSE IF StartsWith(Trim(Head(lines)), << "#" >>)
         THEN systemContent
         ELSE SystemLines_AnyHeading(Tail(lines), Append(systemContent, Head(lines)))

\* the loop of extractSystemPrompt: lines are accumulated until a line that
\* starts with '#' once trimmed is met with something already accumulated
RECURSIVE SystemLines(_, _)
SystemLines(lines, systemContent) ==
    IF lines = << >> THEN systemContent
    ELSE IF StartsWith(Trim(Head(lines)), << "#" >>) /\ Len(systemContent) > 0
         THEN systemContent
         ELSE SystemLines(Tail(lines), Append(systemContent, Head(lines)))

extractSystemPrompt(prompt) ==
    LET joined == Trim(Join(SystemLines(Split(prompt, "\n"), << >>), "\n"))
    IN  IF joined # << >> THEN joined ELSE prompt

extractUserTask(prompt) == prompt

\* the switch of formatForModel
ApiReady(model, restructuredPrompt) ==
    CASE model = "claude" ->
           [ model |-> "claude-3-5-sonnet-20241022",
             max_tokens |-> 4096,
             messages |-> << [role |-> "user", content |-> restructuredPrompt] >> ]
      [] model = "chatgpt" ->
           [ model |-> "gpt-4o",
             messages |->
               << [role |-> "system", content |-> extractSystemPrompt(restructuredPrompt)],
                  [role |-> "user", content |-> extractUserTask(restructuredPrompt)] >>,
             temperature |-> 0 ]
      [] model = "gemini" ->
           [ model |-> "gemini-2.5-flash",
             contents |-> [parts |-> << [text |-> restructuredPrompt] >>] ]
      [] model = "perplexity" ->
           [ model |-> "sonar",
             messages |-> << [role |-> "system", content |-> restructuredPrompt] >> ]
      [] OTHER ->
           [ prompt |-> restructuredPrompt ]

\* formatForModel with reframed_length taken from the original prompt
formatForModel_LengthOfOriginal(model, restructuredPrompt, originalPrompt, now) ==
    [ model |-> model,
      original_prompt |-> originalPrompt,
      reframed |-> [ raw |-> restructuredPrompt,
                     api_ready |-> ApiReady(model, restructuredPrompt) ],
      metadata |-> [ timestamp |-> now,
                     original_length |-> Len(originalPrompt),
                     reframed_length |-> Len(originalPrompt) ] ]

\* now is the reading of the clock taken by new Date()
formatForModel(model, restructuredPrompt, originalPrompt, now) ==
    [ model |-> model,
      original_prompt |-> originalPrompt,
      reframed |-> [ raw |-> restructuredPrompt,
                     api_ready |-> ApiReady(model, restructuredPrompt) ],
      metadata |-> [ timestamp |-> now,
                     original_length |-> Len(originalPrompt),
                     reframed_length |-> Len(restructuredPrompt) ] ]

(***************************************************************************)
(* Ambiguity detector.  The three regular expressions are matched on the   *)
(* characters: \b is a change of word-character status between neighbours, *)
(* the i flag compares lower-cased text, the g flag makes test start at    *)
(* the object's lastIndex and leave the end of the match in it.            *)
(***************************************************************************)
vagueQuantifierWords ==
    << <<"s", "o", "m", "e">>,
       <<"f", "e", "w">>,
       <<"m", "a", "n", "y">>,
       <<"s", "e", "v", "e", "r", "a", "l">>,
       <<"a", " ", "b", "i", "t">>,
       <<"l", "o", "t", "s", " ", "o", "f">> >>

broadTopicOpeners ==
    << <<"e", "x", "p", "l", "a", "i", "n">>,
       <<"d", "e", "s", "c", "r", "i", "b", "e">>,
       <<"t", "e", "l", "l", " ", "m", "e", " ", "a", "b", "o", "u", "t">> >>

broadTopicExclusions ==
    << <<"h", "o", "w">>,
       <<"w", "h", "y">>,
       <<"w", "h", "e", "n">>,
       <<"w", "h", "e", "r", "e">> >>

formatKeywordWords ==
    << <<"l", "i", "s", "t">>,
       <<"t", "a", "b", "l", "e">>,
       <<"s", "u", "m", "m", "a", "r", "y">>,
       <<"p", "a", "r", "a", "g", "r", "a", "p", "h">>,
       <<"c", "o", "d", "e">>,
       <<"j", "s", "o", "n">>,
       <<"s", "t", "e", "p", "s">> >>

\* prompt.length < 50
ScopeMaxLength == 50

\* prompt.split(' ').length > 10
FormatMinParts == 10

\* ambiguities.slice(0, 3)
MaxQuestions == 3

\* the assertion \b at offset p of s (0 is before the first character)
WordBoundary(s, p) ==
    LET before == p >= 1 /\ IsWordChar(s[p])
        after == p + 1 <= Len(s) /\ IsWordChar(s[p + 1])
    IN  before # after

\* \b(word)\b matches at character i of s, whose lower-cased text is lower
WordMatchesAt(s, lower, i, word) ==
    /\ MatchesAt(lower, i, word)
    /\ WordBoundary(s, i - 1)
    /\ WordBoundary(s, i - 1 + Len(word))

\* the first alternative of \b(w1|w2|...)\b that matches at i, 0 when none does
FirstAlternativeAt(s, lower, i, words) ==
    LET ks == {k \in 1..Len(words) : WordMatchesAt(s, lower, i, words[k])}
    IN  IF ks = {} THEN 0 ELSE CHOOSE k \in ks : \A j \in ks : k <= j

\* test of a /\b(w1|w2|...)\b/gi object whose lastIndex is lastIndex: whether
\* it matches, and the lastIndex it is left with
GlobalWordTest(s, words, lastIndex) ==
    LET lower == ToLowerCase(s)
        starts == {i \in (lastIndex + 1)..(Len(s) + 1) :
                     FirstAlternativeAt(s, lower, i, words) # 0}
    IN  IF starts = {} THEN [matched |-> FALSE, lastIndex |-> 0]
        ELSE LET i == CHOOSE a \in starts : \A b \in starts : a <= b
                 k == FirstAlternativeAt(s, lower, i, words)
             IN  [matched |-> TRUE, lastIndex |-> i - 1 + Len(words[k])]

\* test of /\b(w1|w2|...)\b/i
WordTest(s, words) ==
    LET lower == ToLowerCase(s)
    IN  \E i \in 1..Len(s) : FirstAlternativeAt(s, lower, i, words) # 0

\* test of /\b(explain|describe|tell me about)\s+(?!how|why|when|where)\w+/i:
\* an opener, n white-space characters, then a word character at which none
\* of the excluded words starts
BroadTopicsTest(s) ==
    LET lower == ToLowerCase(s)
    IN  \E i \in 1..Len(s), o \in 1..Len(broadTopicOpeners) :
          /\ WordBoundary(s, i - 1)
          /\ MatchesAt(lower, i, broadTopicOpeners[o])
          /\ \E n \in 1..Len(s) :
               LET j == i + Len(broadTopicOpeners[o])
               IN  /\ j + n <= Len(s)
                   /\ \A k \in j..(j + n - 1) : s[k] \in WhiteSpace
                   /\ ~\E e \in 1..Len(broadTopicExclusions) :
                         MatchesAt(lower, j + n, broadTopicExclusions[e])
                   /\ IsWordChar(s[j + n])

VagueQuantifierQuestion ==
    [ type |-> "vague_quantifier",
      question |-> "How many examples or items would you like?",
      options |-> << "1-2", "3-5", "5-10", "More than 10" >> ]

UndefinedScopeQuestion ==
    [ type |-> "undefined_scope",
      question |-> "What level of detail do you need?",
      options |-> << "Brief overview", "Moderate detail", "In-depth explanation" >> ]

MissingFormatQuestion ==
    [ type |-> "missing_format",
      question |-> "How should the output be formatted?",
      options |-> << "Bullet points", "Paragraph", "Step-by-step", "Table" >> ]

\* the array with the three pushes in the other order
Ambiguities_FormatFirst(vague, scope, format) ==
    (IF format THEN << MissingFormatQuestion >> ELSE << >>)
      \o (IF vague THEN << VagueQuantifierQuestion >> ELSE << >>)
      \o (IF scope THEN << UndefinedScopeQuestion >> ELSE << >>)

\* the array after the three conditional pushes
Ambiguities(vague, scope, format) ==
    (IF vague THEN << VagueQuantifierQuestion >> ELSE << >>)
      \o (IF scope THEN << UndefinedScopeQuestion >> ELSE << >>)
      \o (IF format THEN << MissingFormatQuestion >> ELSE << >>)

\* the regex created by one call and kept in a module constant: its lastIndex
\* is the one the previous call left
HoistedLastIndex == vagueLastIndex

\* lastIndex of the regex object a call creates: the literal is evaluated
\* anew by every call
FreshLastIndex == 0

\* the test of vagueQuantifiers made by one call
VagueQuantifiersTest(prompt) ==
    GlobalWordTest(prompt, vagueQuantifierWords, FreshLastIndex)

detectAmbiguity(prompt) ==
    LET vague == VagueQuantifiersTest(prompt).matched
        scope == BroadTopicsTest(prompt) /\ Len(prompt) < ScopeMaxLength
        format == /\ ~WordTest(prompt, formatKeywordWords)
                  /\ Len(Split(prompt, " ")) > FormatMinParts
        ambiguities == Ambiguities(vague, scope, format)
    IN  [ hasAmbiguity |-> Len(ambiguities) > 0,
          questions |->
            SubSeq(ambiguities, 1,
                   IF Len(ambiguities) < MaxQuestions THEN Len(ambiguities)
                   ELSE MaxQuestions) ]

(***************************************************************************)
(* The reframe handler, app.post('/api/reframe'), step by step.  A request *)
(* body is a record; a property the client did not send is a field the     *)
(* record lacks.                                                           *)
(***************************************************************************)
HasProp(body, f) == f \in DOMAIN body

\* PromptMissing as "raw_prompt === undefined": the empty string passes
PromptMissing_AbsentOnly(body) == ~HasProp(body, "raw_prompt")

\* !raw_prompt: absent or the empty string
PromptMissing(body) == ~HasProp(body, "raw_prompt") \/ body.raw_prompt = << >>

\* !model || !MODEL_TEMPLATES[model]
ModelInvalid(registry, body) ==
    \/ ~HasProp(body, "model")
    \/ body.model = ""
    \/ ~TemplateTruthy(registry, body.model)

Reply(status, json) == [status |-> status, body |-> json]

\* the response of the no-credential branch
NoCredentialResponse(body, now) ==
    Reply(200, [ restructured_prompt |-> body.raw_prompt,
                 model |-> body.model,
                 error |-> "API key not configured",
                 timestamp |-> now ])

\* one rendered line per clarification, in the object's own order
ClarificationLines(entries) ==
    [i \in 1..Len(entries) |-> << "- ", entries[i][1], ": ", entries[i][2], "\n" >>]

clarificationContext(body) ==
    IF HasProp(body, "clarifications") /\ Len(body.clarifications) > 0
    THEN << "\n\nClarifications provided by user:\n" >>
           \o ClarificationLines(body.clarifications)
    ELSE << >>

\* the choice of the system prompt without the image override of line 550
systemPrompt_ModelOnly(registry, body) ==
    TemplateSystemPrompt(registry, body.model)

\* the system prompt chosen for the request
systemPrompt(registry, body) ==
    IF isImageGenerationRequest(body.raw_prompt)
    THEN IMAGE_GENERATION_SYSTEM_PROMPT
    ELSE TemplateSystemPrompt(registry, body.model)

\* the argument of openai.chat.completions.create
CompletionRequest(registry, body) ==
    [ model |-> "gpt-4o-mini",
      temperature |-> 0,
      messages |->
        << [ role |-> "system", content |-> systemPrompt(registry, body) ],
           [ role |-> "user",
             content |-> [ prefix |-> "Original prompt: ",
                           raw_prompt |-> body.raw_prompt,
                           context |-> clarificationContext(body) ] ] >> ]

\* the handler from its entry to its first return or to the await: the
\* replies it sends and the calls it makes to the generation service
ReframeEntry(registry, credential, body, now) ==
    IF PromptMissing(body)
    THEN [ replies |-> << Reply(400, [error |-> "Prompt is required"]) >>,
           calls |-> << >> ]
    ELSE IF ModelInvalid(registry, body)
    THEN [ replies |-> << Reply(400, [error |-> "Invalid model specified"]) >>,
           calls |-> << >> ]
    ELSE IF ~credential
    THEN [ replies |-> << NoCredentialResponse(body, now) >>, calls |-> << >> ]
    ELSE [ replies |-> << >>, calls |-> << CompletionRequest(registry, body) >> ]

\* the handler after the await, when the completion's text can be read
SuccessReplies(body, content, now) ==
    LET restructuredPrompt == Trim(content)
    IN  << Reply(200, formatForModel(body.model, restructuredPrompt, body.raw_prompt, now)) >>

\* CatchReplies falling back to the trimmed prompt
CatchReplies_Trimmed(body, now) ==
    LET errorResponse ==
          formatForModel(body.model, Trim(body.raw_prompt), body.raw_prompt, now)
    IN  << Reply(200, errorResponse @@ [error |-> "Automatic restructuring unavailable"]) >>

\* CatchReplies rethrowing: the handler's promise rejects, nothing is sent
CatchReplies_Rethrow(body, now) == << >>

\* the catch block
CatchReplies(body, now) ==
    LET errorResponse == formatForModel(body.model, body.raw_prompt, body.raw_prompt, now)
    IN  << Reply(200, errorResponse @@ [error |-> "Automatic restructuring unavailable"]) >>

(***************************************************************************)
(* Inputs of the model.                                                    *)
(***************************************************************************)
Reqs == 1..MaxReq

\* readings of the clock
Clock == 0..MaxClock

EmptyPrompt == << >>

PlainPrompt == << " ", "h", "i" >>

ImagePrompt == << "M", "a", "k", "e", " ", "a", "r", "t", "w", "o", "r", "k" >>

\* values of raw_prompt a client sends
Prompts == { EmptyPrompt, PlainPrompt, ImagePrompt }

\* values of model a client sends
Models == ModelIds \cup { "", "unknown", "constructor" }

\* values of clarifications a client sends: an object as its entries in order
Clarifications == { << >>, << << "tone", "formal" >> >> }

EmptyBody == [f \in {} |-> f]

Bodies ==
    { EmptyBody }
      \cup { [raw_prompt |-> p] : p \in Prompts }
      \cup { [model |-> m] : m \in Models }
      \cup { [raw_prompt |-> p, model |-> m] : p \in Prompts, m \in Models }
      \cup { [raw_prompt |-> p, model |-> m, clarifications |-> c] :
               p \in Prompts, m \in Models, c \in Clarifications }

\* texts the generation service returns
PaddedContent == << " ", "a", "\n", "#", "b", "\n" >>

HeadingContent == << "#", "t" >>

BlankContent == << " " >>

Contents == { PaddedContent, HeadingContent, BlankContent }

(***************************************************************************)
(* The server.                                                             *)
(***************************************************************************)
Init ==
    /\ apiKey \in BOOLEAN
    /\ phase = "boot"
    /\ templates = MODEL_TEMPLATES
    /\ pc = [r \in Reqs |-> "idle"]
    /\ reqBody = [r \in Reqs |-> << >>]
    /\ calls = [r \in Reqs |-> << >>]
    /\ outcome = [r \in Reqs |-> << >>]
    /\ replies = [r \in Reqs |-> << >>]
    /\ detPrompt = << >>
    /\ detCalls = 0
    /\ detReply = << >>
    /\ vagueLastIndex = 0
    /\ imgPrompt = << >>
    /\ imgResult = << >>
    /\ fmtText = << >>
    /\ fmtOut = << >>

\* module evaluation without the credential check of lines 32-34: app.listen
\* is always reached
Startup_NoCredentialCheck ==
    /\ phase = "boot"
    /\ phase' = "listening"
    /\ UNCHANGED << detVars, fnVars, apiKey, templates, pc, reqBody, calls, outcome, replies >>

\* module evaluation: the credential check throws before app.listen is reached
Startup ==
    /\ phase = "boot"
    /\ phase' = IF apiKey THEN "listening" ELSE "crashed"
    /\ UNCHANGED << detVars, fnVars, apiKey, templates, pc, reqBody, calls, outcome, replies >>

\* a reframe request arrives and its handler runs to a return or to the await;
\* requests are numbered in their order of arrival
ReceiveReframe(r) ==
    /\ phase = "listening"
    /\ pc[r] = "idle"
    /\ \A q \in Reqs : q < r => pc[q] # "idle"
    /\ \E body \in Bodies, now \in Clock :
         LET step == ReframeEntry(templates, apiKey, body, now)
         IN  /\ reqBody' = [reqBody EXCEPT ![r] = << body >>]
             /\ replies' = [replies EXCEPT ![r] = step.replies]
             /\ calls' = [calls EXCEPT ![r] = step.calls]
             /\ pc' = [pc EXCEPT ![r] = IF step.calls = << >> THEN "done" ELSE "awaiting"]
    /\ UNCHANGED << detVars, fnVars, apiKey, phase, templates, outcome >>

\* GenerationResolves with raw_prompt and model kept in variables shared by
\* all handlers: the continuation reads those of the latest request that
\* reached the call
GenerationResolves_SharedLocals(r) ==
    /\ pc[r] = "awaiting"
    /\ \E content \in Contents, now \in Clock :
         LET latest == CHOOSE q \in Reqs :
                         calls[q] # << >> /\ \A p \in Reqs : calls[p] # << >> => p <= q
         IN  /\ outcome' = [outcome EXCEPT ![r] = << [kind |-> "text", content |-> content] >>]
             /\ replies' = [replies EXCEPT
                              ![r] = @ \o SuccessReplies(reqBody[latest][1], content, now)]
    /\ pc' = [pc EXCEPT ![r] = "done"]
    /\ UNCHANGED << detVars, fnVars, apiKey, phase, templates, reqBody, calls >>

\* the call resolves with a completion whose text can be read
GenerationResolves(r) ==
    /\ pc[r] = "awaiting"
    /\ \E content \in Contents, now \in Clock :
         /\ outcome' = [outcome EXCEPT ![r] = << [kind |-> "text", content |-> content] >>]
         /\ replies' = [replies EXCEPT ![r] = @ \o SuccessReplies(reqBody[r][1], content, now)]
    /\ pc' = [pc EXCEPT ![r] = "done"]
    /\ UNCHANGED << detVars, fnVars, apiKey, phase, templates, reqBody, calls >>

\* the call resolves with a completion that has no readable text:
\* completion.choices[0].message.content.trim() throws
GenerationMalformed(r) ==
    /\ pc[r] = "awaiting"
    /\ \E now \in Clock :
         replies' = [replies EXCEPT ![r] = @ \o CatchReplies(reqBody[r][1], now)]
    /\ outcome' = [outcome EXCEPT ![r] = << [kind |-> "malformed"] >>]
    /\ pc' = [pc EXCEPT ![r] = "done"]
    /\ UNCHANGED << detVars, fnVars, apiKey, phase, templates, reqBody, calls >>

\* GenerationRejects with a catch block that repeats a rejected call once
\* before it falls back
GenerationRejects_RetryOnce(r) ==
    /\ pc[r] = "awaiting"
    /\ outcome' = [outcome EXCEPT ![r] = << [kind |-> "rejected"] >>]
    /\ IF Len(calls[r]) < 2
       THEN /\ calls' = [calls EXCEPT ![r] = Append(@, CompletionRequest(templates, reqBody[r][1]))]
            /\ UNCHANGED << replies, pc >>
       ELSE /\ \E now \in Clock :
                 replies' = [replies EXCEPT ![r] = @ \o CatchReplies(reqBody[r][1], now)]
            /\ pc' = [pc EXCEPT ![r] = "done"]
            /\ UNCHANGED calls
    /\ UNCHANGED << detVars, fnVars, apiKey, phase, templates, reqBody >>

\* the call rejects
GenerationRejects(r) ==
    /\ pc[r] = "awaiting"
    /\ \E now \in Clock :
         replies' = [replies EXCEPT ![r] = @ \o CatchReplies(reqBody[r][1], now)]
    /\ outcome' = [outcome EXCEPT ![r] = << [kind |-> "rejected"] >>]
    /\ pc' = [pc EXCEPT ![r] = "done"]
    /\ UNCHANGED << detVars, fnVars, apiKey, phase, templates, reqBody, calls >>

Next ==
    \/ Startup
    \/ \E r \in Reqs : ReceiveReframe(r)
    \/ \E r \in Reqs : GenerationResolves(r)
    \/ \E r \in Reqs : GenerationMalformed(r)
    \/ \E r \in Reqs : GenerationRejects(r)

Spec == Init /\ [][Next]_vars

\* the generation call of every in-flight request settles, and the handler
\* then resumes: the event loop runs a settled promise's continuation
FairSpec ==
    /\ Spec
    /\ \A r \in Reqs :
         WF_vars(GenerationResolves(r) \/ GenerationMalformed(r) \/ GenerationRejects(r))

(***************************************************************************)
(* The ambiguity endpoint, app.post('/api/check-ambiguity'): a client      *)
(* submits one prompt, several times.  The prompt is two words and a run   *)
(* of filler words, with the separators between them.                      *)
(***************************************************************************)
W_explain == <<"e", "x", "p", "l", "a", "i", "n">>

W_TellMeAbout == <<"T", "e", "l", "l", " ", "m", "e", " ", "a", "b", "o", "u", "t">>

W_Some == <<"S", "o", "m", "e">>

W_awesome == <<"a", "w", "e", "s", "o", "m", "e">>

W_a == <<"a">>

W_lots == <<"l", "o", "t", "s">>

W_list == <<"l", "i", "s", "t">>

W_cats == <<"c", "a", "t", "s">>

W_how == <<"h", "o", "w">>

W_many == <<"m", "a", "n", "y">>

W_bit == <<"b", "i", "t">>

W_of == <<"o", "f">>

W_JSON == <<"J", "S", "O", "N">>

W_some_x == <<"s", "o", "m", "e", "_", "x">>

W_FEW == <<"F", "E", "W">>

W_several == <<"s", "e", "v", "e", "r", "a", "l">>

W_x == <<"x">>

FirstWords ==
    { W_explain, W_TellMeAbout, W_Some, W_awesome, W_a, W_lots, W_list, W_cats }

SecondWords ==
    { << >>, W_cats, W_how, W_many, W_bit, W_of, W_JSON, W_some_x, W_FEW, W_several }

Separators == { << " " >>, << " ", " " >>, << "\n" >>, << "-" >> }

PadSeparators == { << " " >>, << " ", " " >>, << "\t" >> }

Fillers == { W_x, W_cats }

\* k filler words, each after a separator
RECURSIVE Padding(_, _, _)
Padding(sep, filler, k) ==
    IF k = 0 THEN << >> ELSE sep \o filler \o Padding(sep, filler, k - 1)

DetectPrompts ==
    { << >> } \cup
    { w1 \o s1 \o w2 \o Padding(ps, f, k) :
        w1 \in FirstWords, s1 \in Separators, w2 \in SecondWords,
        ps \in PadSeparators, f \in Fillers, k \in 0..MaxPad }

InitDetect ==
    /\ apiKey = TRUE
    /\ phase = "listening"
    /\ templates = MODEL_TEMPLATES
    /\ pc = [r \in Reqs |-> "idle"]
    /\ reqBody = [r \in Reqs |-> << >>]
    /\ calls = [r \in Reqs |-> << >>]
    /\ outcome = [r \in Reqs |-> << >>]
    /\ replies = [r \in Reqs |-> << >>]
    /\ detPrompt \in DetectPrompts
    /\ detCalls = 0
    /\ detReply = << >>
    /\ vagueLastIndex = 0
    /\ imgPrompt = << >>
    /\ imgResult = << >>
    /\ fmtText = << >>
    /\ fmtOut = << >>

\* the route: an empty prompt is refused, any other goes to detectAmbiguity
CheckAmbiguity ==
    /\ detCalls < MaxCalls
    /\ detCalls' = detCalls + 1
    /\ IF detPrompt = << >>
       THEN /\ detReply' = << Reply(400, [error |-> "Prompt is required"]) >>
            /\ UNCHANGED vagueLastIndex
       ELSE /\ detReply' = << Reply(200, detectAmbiguity(detPrompt)) >>
            /\ vagueLastIndex' = VagueQuantifiersTest(detPrompt).lastIndex
    /\ UNCHANGED << srvVars, fnVars, detPrompt >>

NextDetect == CheckAmbiguity

SpecDetect == InitDetect /\ [][NextDetect]_vars

(***************************************************************************)
(* The intent classifier on its own: a prompt is handed to                 *)
(* isImageGenerationRequest once.  The prompts put a word that holds, or   *)
(* nearly holds, an image noun next to one that holds, or nearly holds, a  *)
(* creation verb or a quality descriptor, in either order, in either case, *)
(* as whole words and embedded in longer ones.                             *)
(***************************************************************************)
\* words around the image nouns of line 408
SubjectWords ==
    { <<"p", "o", "s", "t", "e", "r">>,
      <<"P", "O", "S", "T", "E", "R">>,
      <<"p", "o", "s", "t", "e", "r", "s">>,
      <<"P", "h", "o", "t", "o", "g", "r", "a", "p", "h">>,
      <<"g", "r", "a", "p", "h">>,
      <<"c", "a", "t">>,
      <<"v", "i", "s", "u", "a", "l", "i", "z", "e">>,
      <<"t", "h", "u", "m", "b", " ", "n", "a", "i", "l">>,
      <<"I", "m", "a", "g", "e">>,
      <<>> }

\* words around the verbs of line 409 and the descriptors of line 410
MannerWords ==
    { <<"C", "r", "e", "a", "t", "e">>,
      <<"r", "e", "m", "a", "k", "e">>,
      <<"s", "t", "u", "n", "n", "i", "n", "g">>,
      <<"u", "l", "t", "r", "a", "s", "o", "u", "n", "d">>,
      <<"h", "i", "g", "h", " ", "q", "u", "a", "l", "i", "t", "y">>,
      <<"H", "i", "g", "h", " ", " ", "Q", "u", "a", "l", "i", "t", "y">>,
      <<"e", "y", "e", " ", "c", "a", "t", "c", "h", "i", "n", "g">>,
      <<"e", "y", "e", "-", "c", "a", "t", "c", "h", "i", "n", "g">>,
      <<"w", "i", "t", "h", "d", "r", "a", "w", "n">>,
      <<"e", "x", "p", "l", "a", "i", "n">>,
      <<"D", "R", "A", "M", "A", "T", "I", "C">>,
      <<>> }

Joiners == { << >>, << " " >>, << "-" >> }

DragonPrompt ==
    <<"C", "r", "e", "a", "t", "e", " ", "a", " ", "s", "t", "u", "n", "n", "i", "n", "g", " ", "v", "i", "b", "r", "a", "n", "t", " ", "p", "o", "s", "t", "e", "r", " ", "o", "f", " ", "a", " ", "d", "r", "a", "g", "o", "n">>

TcpPrompt ==
    <<"E", "x", "p", "l", "a", "i", "n", " ", "h", "o", "w", " ", "T", "C", "P", " ", "c", "o", "n", "g", "e", "s", "t", "i", "o", "n", " ", "c", "o", "n", "t", "r", "o", "l", " ", "w", "o", "r", "k", "s">>

ClassifierPrompts ==
    { a \o j \o b : a \in SubjectWords, j \in Joiners, b \in MannerWords }
    \cup { b \o j \o a : a \in SubjectWords, j \in Joiners, b \in MannerWords }
    \cup { DragonPrompt, TcpPrompt }

InitImage ==
    /\ apiKey = TRUE
    /\ phase = "listening"
    /\ templates = MODEL_TEMPLATES
    /\ pc = [r \in Reqs |-> "idle"]
    /\ reqBody = [r \in Reqs |-> << >>]
    /\ calls = [r \in Reqs |-> << >>]
    /\ outcome = [r \in Reqs |-> << >>]
    /\ replies = [r \in Reqs |-> << >>]
    /\ detPrompt = << >>
    /\ detCalls = 0
    /\ detReply = << >>
    /\ vagueLastIndex = 0
    /\ imgPrompt \in ClassifierPrompts
    /\ imgResult = << >>
    /\ fmtText = << >>
    /\ fmtOut = << >>

\* the call of line 547
ClassifyImage ==
    /\ imgResult = << >>
    /\ imgResult' = << isImageGenerationRequest(imgPrompt) >>
    /\ UNCHANGED << srvVars, detVars, imgPrompt, fmtText, fmtOut >>

NextImage == ClassifyImage

SpecImage == InitImage /\ [][NextImage]_vars

(***************************************************************************)
(* The formatter on its own for the target chatgpt: a restructured text of *)
(* up to MaxLines lines is handed to formatForModel once.  The lines are   *)
(* plain, blank, empty, headings, indented headings, and lines that hold   *)
(* a '#' later than at their start; the text is the trimmed completion on  *)
(* the success path and the caller's prompt as sent on the fallback path.  *)
(***************************************************************************)
TextLines ==
    { << >>, << " " >>, << "a" >>, << "#", "h" >>, << " ", "#", "h" >>,
      << "a", "#" >> }

LineLists == UNION { [1..n -> TextLines] : n \in 1..MaxLines }

FormatTexts == { Join(l, "\n") : l \in LineLists }

InitFormat ==
    /\ apiKey = TRUE
    /\ phase = "listening"
    /\ templates = MODEL_TEMPLATES
    /\ pc = [r \in Reqs |-> "idle"]
    /\ reqBody = [r \in Reqs |-> << >>]
    /\ calls = [r \in Reqs |-> << >>]
    /\ outcome = [r \in Reqs |-> << >>]
    /\ replies = [r \in Reqs |-> << >>]
    /\ detPrompt = << >>
    /\ detCalls = 0
    /\ detReply = << >>
    /\ vagueLastIndex = 0
    /\ imgPrompt = << >>
    /\ imgResult = << >>
    /\ fmtText \in FormatTexts
    /\ fmtOut = << >>

\* the calls of line 570 and of line 577 for the target chatgpt
FormatChatgpt ==
    /\ fmtOut = << >>
    /\ \E originalPrompt \in { fmtText, PlainPrompt }, now \in Clock :
         fmtOut' = << formatForModel("chatgpt", fmtText, originalPrompt, now) >>
    /\ UNCHANGED << srvVars, detVars, imgPrompt, imgResult, fmtText >>

NextFormat == FormatChatgpt

SpecFormat == InitFormat /\ [][NextFormat]_vars



(***************************************************************************)
(* Vocabulary of the properties.                                           *)
(***************************************************************************)
Received(r) == pc[r] # "idle"

Body(r) == reqBody[r][1]

\* the request carries a non-empty prompt
PromptGiven(b) == HasProp(b, "raw_prompt") /\ Len(b.raw_prompt) > 0

\* the request names one of the five target models
ModelRecognized(b) == HasProp(b, "model") /\ b.model \in ModelIds

ValidRequest(b) == PromptGiven(b) /\ ModelRecognized(b)

Failed(r) == outcome[r] # << >> /\ outcome[r][1].kind \in {"malformed", "rejected"}

Generated(r) == outcome[r] # << >> /\ outcome[r][1].kind = "text"

MissingPromptReply == [status |-> 400, body |-> [error |-> "Prompt is required"]]

InvalidModelReply == [status |-> 400, body |-> [error |-> "Invalid model specified"]]

\* the outbound success shape
SuccessShaped(reply) ==
    /\ reply.status = 200
    /\ {"model", "original_prompt", "reframed", "metadata"} \subseteq DOMAIN reply.body
    /\ DOMAIN reply.body \subseteq
         {"model", "original_prompt", "reframed", "metadata", "error"}
    /\ DOMAIN reply.body.reframed = {"raw", "api_ready"}
    /\ DOMAIN reply.body.metadata = {"timestamp", "original_length", "reframed_length"}

\* the fields of the API-ready payload of each target model
EnvelopeFields(model) ==
    CASE model = "claude" -> {"model", "max_tokens", "messages"}
      [] model = "chatgpt" -> {"model", "messages", "temperature"}
      [] model = "gemini" -> {"model", "contents"}
      [] model = "perplexity" -> {"model", "messages"}
      [] OTHER -> {"prompt"}

\* t is s without its leading and trailing white space
IsTrimOf(t, s) ==
    /\ t = << >> \/ (t[1] \notin WhiteSpace /\ t[Len(t)] \notin WhiteSpace)
    /\ \E i \in 1..(Len(s) + 1) :
         /\ i + Len(t) - 1 <= Len(s)
         /\ SubSeq(s, i, i + Len(t) - 1) = t
         /\ \A k \in 1..Len(s) : (k < i \/ k > i + Len(t) - 1) => s[k] \in WhiteSpace

(***************************************************************************)
(* C1.  When the generation call of a request with a non-empty prompt and  *)
(* a recognized model fails (it rejects, or its text cannot be read), the  *)
(* one reply is success-shaped, carries the envelope of the request's      *)
(* model, has reframed.raw equal to the original prompt exactly, and has   *)
(* its error field set.                                                    *)
(***************************************************************************)
C1_DegradedOnFailure ==
    \A r \in Reqs :
      (Received(r) /\ ValidRequest(Body(r)) /\ Failed(r)) =>
        /\ Len(replies[r]) = 1
        /\ SuccessShaped(replies[r][1])
        /\ replies[r][1].body.model = Body(r).model
        /\ DOMAIN replies[r][1].body.reframed.api_ready = EnvelopeFields(Body(r).model)
        /\ replies[r][1].body.reframed.raw = Body(r).raw_prompt
        /\ replies[r][1].body.original_prompt = Body(r).raw_prompt
        /\ "error" \in DOMAIN replies[r][1].body

\* one request was answered after a rejection, another after an unreadable
\* completion, and the prompt of the first has leading white space
C1_Witness ==
    /\ Received(1) /\ ValidRequest(Body(1)) /\ Body(1).raw_prompt = PlainPrompt
    /\ outcome[1] = << [kind |-> "rejected"] >> /\ Len(replies[1]) = 1
    /\ Received(2) /\ ValidRequest(Body(2))
    /\ outcome[2] = << [kind |-> "malformed"] >> /\ Len(replies[2]) = 1

(***************************************************************************)
(* C2.  A process with no generation credential serves reframe requests,   *)
(* and answers a valid one with a success-shaped result whose reframed.raw *)
(* is the original prompt and whose error field is set.                    *)
(***************************************************************************)
C2_PassThroughWithoutCredential ==
    (~apiKey /\ phase # "boot") =>
      /\ phase = "listening"
      /\ \A b \in Bodies, now \in Clock :
           ValidRequest(b) =>
             LET step == ReframeEntry(templates, apiKey, b, now)
             IN  /\ Len(step.replies) = 1
                 /\ SuccessShaped(step.replies[1])
                 /\ step.replies[1].body.reframed.raw = b.raw_prompt
                 /\ "error" \in DOMAIN step.replies[1].body

(***************************************************************************)
(* C3.  A request whose model is not one of the five identifiers (absent   *)
(* included) is rejected with HTTP 400 -- InvalidModel, or MissingPrompt   *)
(* when its prompt is missing too -- and no call to the generation service *)
(* is made for it.                                                         *)
(***************************************************************************)
C3_UnrecognizedModelRejected ==
    \A r \in Reqs :
      (Received(r) /\ ~ModelRecognized(Body(r))) =>
        /\ pc[r] = "done"
        /\ calls[r] = << >>
        /\ replies[r] =
             << IF PromptGiven(Body(r)) THEN InvalidModelReply ELSE MissingPromptReply >>

(***************************************************************************)
(* C4.  A request with an empty or absent raw_prompt is rejected with      *)
(* MissingPrompt (400, 'Prompt is required') whatever its model, and no    *)
(* call to the generation service is made for it.                          *)
(***************************************************************************)
C4_MissingPromptRejected ==
    \A r \in Reqs :
      (Received(r) /\ ~PromptGiven(Body(r))) =>
        /\ pc[r] = "done"
        /\ calls[r] = << >>
        /\ outcome[r] = << >>
        /\ replies[r] = << MissingPromptReply >>

\* an empty prompt with a recognized model and an absent prompt were rejected
C4_Witness ==
    /\ Received(1) /\ Body(1) = [raw_prompt |-> EmptyPrompt, model |-> "claude"]
    /\ Received(2) /\ Body(2) = [model |-> "unknown"]
    /\ replies[1] = << MissingPromptReply >> /\ replies[2] = << MissingPromptReply >>

(***************************************************************************)
(* C5.  A valid request whose generation call settles is eventually        *)
(* answered, with exactly one reply, which is success-shaped; no request   *)
(* is ever answered twice, and every reply that is not success-shaped is   *)
(* one of the two input-validation rejections, sent to a request whose     *)
(* prompt is missing or whose model is not recognized.                     *)
(***************************************************************************)
C5_NonThrowing ==
    /\ \A r \in Reqs :
         (pc[r] = "awaiting" /\ ValidRequest(Body(r))) ~>
           (pc[r] = "done" /\ Len(replies[r]) = 1 /\ SuccessShaped(replies[r][1]))
    /\ [](\A r \in Reqs :
            /\ Len(replies[r]) <= 1
            /\ (Received(r) /\ ValidRequest(Body(r)) /\ pc[r] = "done") =>
                 (Len(replies[r]) = 1 /\ SuccessShaped(replies[r][1]))
            /\ \A i \in 1..Len(replies[r]) :
                 \/ SuccessShaped(replies[r][i])
                 \/ /\ replies[r][i] \in {MissingPromptReply, InvalidModelReply}
                    /\ ~ValidRequest(Body(r)))

\* a valid request was answered after its call rejected while another is
\* still waiting for its call
C5_Witness ==
    /\ Received(1) /\ ValidRequest(Body(1)) /\ pc[1] = "awaiting"
    /\ Received(2) /\ ValidRequest(Body(2)) /\ pc[2] = "done"
    /\ outcome[2] = << [kind |-> "rejected"] >> /\ Len(replies[2]) = 1

(***************************************************************************)
(* C6.  In every reply sent with success status, metadata.original_length  *)
(* is the length of original_prompt and metadata.reframed_length is the    *)
(* length of reframed.raw; on the full path reframed.raw is the generated  *)
(* text without its leading and trailing white space.                      *)
(***************************************************************************)
C6_LengthsRoundTrip ==
    \A r \in Reqs : \A i \in 1..Len(replies[r]) :
      (replies[r][i].status = 200 /\ SuccessShaped(replies[r][i])) =>
        LET json == replies[r][i].body
        IN  /\ json.metadata.original_length = Len(json.original_prompt)
            /\ json.metadata.reframed_length = Len(json.reframed.raw)
            /\ Generated(r) =>
                 /\ IsTrimOf(json.reframed.raw, outcome[r][1].content)
                 /\ json.metadata.reframed_length <= Len(outcome[r][1].content)

\* a full result whose generated text had white space to trim, and a degraded
\* one, with reframed text and original prompt of different lengths
C6_Witness ==
    /\ Generated(1) /\ outcome[1][1].content = PaddedContent
    /\ Len(replies[1]) = 1
    /\ replies[1][1].body.metadata.reframed_length = 4
    /\ replies[1][1].body.metadata.original_length = 3
    /\ Failed(2) /\ Len(replies[2]) = 1
    /\ replies[2][1].body.metadata.reframed_length = Len(ImagePrompt)

(***************************************************************************)
(* C7.  Under every interleaving of the in-flight requests, a reply's      *)
(* model, original_prompt, reframed and error fields are those of its own  *)
(* request and its own generation outcome; two requests with the same body *)
(* and the same outcome get the same fields; a step of one request leaves  *)
(* every other request's state alone; the registry is never modified.      *)
(***************************************************************************)
\* the fields of a success reply other than its metadata
CoreFields(reply) ==
    [f \in DOMAIN reply.body \ {"metadata"} |-> reply.body[f]]

\* the per-request state
Slot(r) == << pc[r], reqBody[r], calls[r], outcome[r], replies[r] >>

C7_OwnInputsOnly ==
    \A r \in Reqs :
      (pc[r] = "done" /\ outcome[r] # << >> /\ Len(replies[r]) = 1) =>
        LET json == replies[r][1].body
        IN  /\ json.model = Body(r).model
            /\ json.original_prompt = Body(r).raw_prompt
            /\ Generated(r) =>
                 /\ IsTrimOf(json.reframed.raw, outcome[r][1].content)
                 /\ "error" \notin DOMAIN json
            /\ Failed(r) =>
                 /\ json.reframed.raw = Body(r).raw_prompt
                 /\ "error" \in DOMAIN json
            /\ \A q \in Reqs :
                 ( /\ pc[q] = "done" /\ Len(replies[q]) = 1
                   /\ reqBody[q] = reqBody[r] /\ outcome[q] = outcome[r] ) =>
                   CoreFields(replies[q][1]) = CoreFields(replies[r][1])

\* C7: every reply is made of its own request's inputs and outcome, a step
\* changes the state of one request only, and the registry never changes
C7_Independent ==
    /\ [](C7_OwnInputsOnly /\ templates = MODEL_TEMPLATES)
    /\ [][ /\ templates' = templates
           /\ \A q, r \in Reqs :
                (Slot(q)' # Slot(q) /\ Slot(r)' # Slot(r)) => q = r ]_vars

\* the second request arrived while the first was waiting, with another
\* body, and was answered first
C7_Witness ==
    /\ pc[1] = "awaiting" /\ pc[2] = "done"
    /\ ValidRequest(Body(1)) /\ ValidRequest(Body(2))
    /\ Body(1).model # Body(2).model /\ Body(1).raw_prompt # Body(2).raw_prompt
    /\ Generated(2) /\ Len(replies[2]) = 1

(***************************************************************************)
(* Vocabulary of the detector's properties.                                *)
(***************************************************************************)
\* the ambiguity endpoint has answered with a detection result
Detected == detReply # << >> /\ detReply[1].status = 200

Questions == detReply[1].body.questions

HasFinding(type) == \E i \in 1..Len(Questions) : Questions[i].type = type

\* place of a finding type in the fixed order
TypeRank(type) ==
    CASE type = "vague_quantifier" -> 1
      [] type = "undefined_scope" -> 2
      [] type = "missing_format" -> 3
      [] OTHER -> 0

\* word occurs in s as a whole word, in any letter case: the characters next
\* to the occurrence, if any, are not word characters
ContainsWholeWord(s, word) ==
    \E i \in 1..Len(s) :
      /\ MatchesAt(ToLowerCase(s), i, word)
      /\ i = 1 \/ s[i - 1] \notin WordChars
      /\ i + Len(word) - 1 = Len(s) \/ s[i + Len(word)] \notin WordChars

\* the number of white-space-separated tokens of s: the places where a
\* character that is not white space starts the text or follows white space
TokenCount(s) ==
    Cardinality({i \in 1..Len(s) :
                   s[i] \notin WhiteSpace /\ (i = 1 \/ s[i - 1] \in WhiteSpace)})

\* one of the format words occurs somewhere in s, in any letter case
MentionsFormatWord(s) ==
    \E k \in 1..Len(formatKeywordWords) : Includes(ToLowerCase(s), formatKeywordWords[k])

(***************************************************************************)
(* C8.  detect returns at most 3 findings, each of one of the three types, *)
(* in strictly increasing place of the fixed order vague_quantifier,       *)
(* undefined_scope, missing_format (so at most one per type), and          *)
(* hasAmbiguity is true exactly when the list is not empty.                *)
(***************************************************************************)
C8_FindingsOrdered ==
    Detected =>
      /\ Len(Questions) <= 3
      /\ \A i \in 1..Len(Questions) : TypeRank(Questions[i].type) # 0
      /\ \A i, j \in 1..Len(Questions) :
           i < j => TypeRank(Questions[i].type) < TypeRank(Questions[j].type)
      /\ detReply[1].body.hasAmbiguity = (Len(Questions) > 0)

\* a prompt with all three findings
C8_Witness ==
    /\ Detected
    /\ Len(Questions) = 3
    /\ detReply[1].body.hasAmbiguity

(***************************************************************************)
(* C9.  A prompt with more than 10 white-space-separated tokens that       *)
(* mentions none of the format words gets a missing_format finding, and a  *)
(* prompt with 10 tokens or fewer gets none.                               *)
(***************************************************************************)
C9_MissingFormatByTokens ==
    Detected =>
      /\ (TokenCount(detPrompt) > 10 /\ ~MentionsFormatWord(detPrompt))
           => HasFinding("missing_format")
      /\ TokenCount(detPrompt) <= 10 => ~HasFinding("missing_format")

(***************************************************************************)
(* C10.  After every call, the first and the later ones alike, the result  *)
(* has a vague_quantifier finding exactly when the prompt contains some,   *)
(* few, many, several, a bit or lots of as a whole word or phrase, in any  *)
(* letter case.                                                            *)
(***************************************************************************)
C10_VagueQuantifierEveryCall ==
    Detected =>
      ( HasFinding("vague_quantifier") <=>
          \E k \in 1..Len(vagueQuantifierWords) :
            ContainsWholeWord(detPrompt, vagueQuantifierWords[k]) )

\* the second call on a prompt with an upper-case quantifier found it again
C10_Witness ==
    /\ Detected
    /\ detCalls = 2
    /\ ContainsWholeWord(detPrompt, << "f", "e", "w" >>)
    /\ Includes(detPrompt, W_FEW)
    /\ HasFinding("vague_quantifier")


(***************************************************************************)
(* C11.  The classification of a prompt, stated on the positions of the    *)
(* prompt at which a keyword occurs.                                       *)
(***************************************************************************)
ElementsOf(list) == { list[i] : i \in 1..Len(list) }

OccursAt(s, i, word) ==
    /\ i + Len(word) - 1 <= Len(s)
    /\ SubSeq(s, i, i + Len(word) - 1) = word

Occurs(s, word) == \E i \in 1..Len(s) : OccursAt(s, i, word)

ImageNouns == ElementsOf(imageKeywords)
CreationVerbsSet == ElementsOf(creationVerbs)
QualityDescriptors == ElementsOf(qualityKeywords)

HasImageNoun(s) == \E w \in ImageNouns : Occurs(ToLowerCase(s), w)
HasCreationVerb(s) == \E w \in CreationVerbsSet : Occurs(ToLowerCase(s), w)
HasQualityDescriptor(s) == \E w \in QualityDescriptors : Occurs(ToLowerCase(s), w)

ImageIntent(s) ==
    HasImageNoun(s) /\ (HasCreationVerb(s) \/ HasQualityDescriptor(s))

\* an occurrence of a keyword that is part of a longer word
EmbeddedAt(s, i, word) ==
    /\ OccursAt(s, i, word)
    /\ \/ i > 1 /\ IsWordChar(s[i - 1])
       \/ i + Len(word) <= Len(s) /\ IsWordChar(s[i + Len(word)])

\* every keyword of the prompt occurs only inside longer words
OnlyEmbeddedKeywords(s) ==
    \A w \in ImageNouns \cup CreationVerbsSet \cup QualityDescriptors :
        \A i \in 1..Len(s) :
            OccursAt(ToLowerCase(s), i, w) => EmbeddedAt(ToLowerCase(s), i, w)

\* C11: isImageGenerationRequest returns true exactly when the lower-cased
\* prompt contains, as a substring, an image noun and also a creation verb or
\* a quality descriptor; the two example prompts classify as stated
C11_ImageIntentBySubstring ==
    /\ imgResult # << >> => (imgResult[1] <=> ImageIntent(imgPrompt))
    /\ imgResult # << >> /\ imgPrompt = DragonPrompt => imgResult[1]
    /\ imgResult # << >> /\ imgPrompt = TcpPrompt => ~imgResult[1]

\* a prompt whose keywords are all embedded in longer words, one of them in
\* upper case, has been classified as an image request
C11_Witness ==
    /\ imgResult = << TRUE >>
    /\ OnlyEmbeddedKeywords(imgPrompt)
    /\ imgPrompt # ToLowerCase(imgPrompt)


(***************************************************************************)
(* C12.  The system instruction of the one generation call.                *)
(***************************************************************************)
Called(r) == calls[r] # << >>

\* the content of the system message of the request's call
SystemInstruction(r) == calls[r][1].messages[1].content

SameModelAndIntent(r, q) ==
    /\ Body(r).model = Body(q).model
    /\ ImageIntent(Body(r).raw_prompt) <=> ImageIntent(Body(q).raw_prompt)

\* C12: for a recognized model the system instruction sent is the shared
\* image template when the prompt is an image request and the template of
\* the request's model otherwise; requests with the same model and intent
\* send the same instruction; and the API-ready payload of every reply has
\* the fields of the request's model whatever the intent
C12_InstructionByModelAndIntent ==
    /\ \A r \in Reqs :
         Called(r) /\ ModelRecognized(Body(r)) =>
             SystemInstruction(r) =
                 IF ImageIntent(Body(r).raw_prompt)
                 THEN IMAGE_GENERATION_SYSTEM_PROMPT
                 ELSE MODEL_TEMPLATES[Body(r).model].systemPrompt
    /\ \A r, q \in Reqs :
         Called(r) /\ Called(q) /\ SameModelAndIntent(r, q) =>
             SystemInstruction(r) = SystemInstruction(q)
    /\ \A r \in Reqs :
         Called(r) /\ ModelRecognized(Body(r)) /\ replies[r] # << >> =>
             DOMAIN replies[r][1].body.reframed.api_ready
                 = EnvelopeFields(Body(r).model)

\* two image requests for different models were sent the shared template
\* and one of them was answered with its model's own payload, while the
\* other was answered with a differently shaped one
C12_Witness ==
    \E r, q \in Reqs :
        /\ Called(r) /\ Called(q)
        /\ ModelRecognized(Body(r)) /\ ModelRecognized(Body(q))
        /\ Body(r).model # Body(q).model
        /\ ImageIntent(Body(r).raw_prompt) /\ ImageIntent(Body(q).raw_prompt)
        /\ SystemInstruction(r) = IMAGE_GENERATION_SYSTEM_PROMPT
        /\ SystemInstruction(q) = IMAGE_GENERATION_SYSTEM_PROMPT
        /\ Generated(r) /\ Generated(q)
        /\ DOMAIN replies[r][1].body.reframed.api_ready
             # DOMAIN replies[q][1].body.reframed.api_ready


(***************************************************************************)
(* C13.  The number of calls a request makes to the generation service.    *)
(***************************************************************************)
\* the request was refused by the validation of its input
RejectedByValidation(r) ==
    /\ replies[r] # << >>
    /\ replies[r][1].status = 400

\* the one reply of the request is the degraded result
AnsweredDegraded(r) ==
    /\ pc[r] = "done"
    /\ Len(replies[r]) = 1
    /\ SuccessShaped(replies[r][1])
    /\ "error" \in DOMAIN replies[r][1].body
    /\ replies[r][1].body.reframed.raw = Body(r).raw_prompt

C13_CallCounts ==
    \A r \in Reqs :
        /\ Len(calls[r]) <= 1
        /\ Received(r) /\ ~PromptGiven(Body(r)) => calls[r] = << >>
        /\ RejectedByValidation(r) => calls[r] = << >>
        /\ Failed(r) => Len(calls[r]) = 1 /\ AnsweredDegraded(r)

\* once the call of a request has failed, no step makes another call for it
\* or answers it again
C13_NoRetryStep ==
    \A r \in Reqs :
        Failed(r) => calls'[r] = calls[r] /\ replies'[r] = replies[r]

\* C13: every request makes at most one call to the generation service; a
\* request refused by validation makes none; a request whose call failed
\* has made exactly one, is answered with the degraded result in the step
\* in which the call fails, and no later step calls again for it
C13_AtMostOneCall == [](C13_CallCounts) /\ [][C13_NoRetryStep]_vars

\* one request's only call has failed and was answered, another request
\* was refused by validation without a call, and the model went on
C13_Witness ==
    \E r, q \in Reqs :
        /\ Failed(r) /\ outcome[r][1].kind = "rejected"
        /\ Len(calls[r]) = 1 /\ AnsweredDegraded(r)
        /\ r < q
        /\ RejectedByValidation(q) /\ calls[q] = << >>


(***************************************************************************)
(* C15.  A process started without the credential.                         *)
(***************************************************************************)
\* the answer of the handler's branch for a missing credential
PassThroughReply(reply) ==
    /\ reply.status = 200
    /\ "restructured_prompt" \in DOMAIN reply.body
    /\ "error" \in DOMAIN reply.body
    /\ reply.body.error = "API key not configured"

C15_WitnessServing ==
    \E r \in Reqs : pc[r] = "awaiting" /\ ValidRequest(Body(r)) /\ apiKey


(***************************************************************************)
(* C14.  The system and user content of the chatgpt payload, stated on the *)
(* lines of the restructured text by their index.                          *)
(***************************************************************************)
TextLinesOf(text) == Split(text, "\n")

\* the line starts with '#' after leading white space
IsHeading(line) ==
    \E i \in 1..Len(line) :
        /\ line[i] = "#"
        /\ \A k \in 1..(i - 1) : line[k] \in WhiteSpace

\* the heading lines met after at least one line has been accumulated: the
\* first line is always accumulated, so these are the headings from line 2
BoundaryLines(text) ==
    { i \in 2..Len(TextLinesOf(text)) : IsHeading(TextLinesOf(text)[i]) }

FirstBoundary(text) ==
    CHOOSE i \in BoundaryLines(text) : \A k \in BoundaryLines(text) : i <= k

\* the lines before the boundary, or all of them, joined as they were
AccumulatedText(text) ==
    IF BoundaryLines(text) = {}
    THEN text
    ELSE Join(SubSeq(TextLinesOf(text), 1, FirstBoundary(text) - 1), "\n")

AllWhiteSpace(s) == \A i \in 1..Len(s) : s[i] \in WhiteSpace

Formatted == fmtOut # << >>

SystemContent == fmtOut[1].reframed.api_ready.messages[1].content

UserContent == fmtOut[1].reframed.api_ready.messages[2].content

\* C14 as stated: the system content is the accumulated lines themselves,
\* and the full text when there is no boundary
C14_SystemContentIsAccumulatedLines ==
    Formatted =>
        /\ SystemContent = AccumulatedText(fmtText)
        /\ UserContent = fmtText
        /\ fmtText # << >> => SystemContent # << >>

\* C14: the system content is the accumulated lines with the white space
\* at their two ends removed, or the full text when nothing but white space
\* was accumulated; a text without a boundary and without white space at
\* its ends is its own system content; a heading on line 1 is accumulated;
\* the user content is the full text; and the system content of a
\* non-empty text is not empty
C14_SystemContentIsTrimmedAccumulation ==
    Formatted =>
        /\ IF AllWhiteSpace(AccumulatedText(fmtText))
           THEN SystemContent = fmtText
           ELSE IsTrimOf(SystemContent, AccumulatedText(fmtText))
        /\ BoundaryLines(fmtText) = {} /\ IsTrimOf(fmtText, fmtText)
             => SystemContent = fmtText
        /\ IsHeading(TextLinesOf(fmtText)[1])
             => StartsWith(SystemContent, Trim(TextLinesOf(fmtText)[1]))
        /\ UserContent = fmtText
        /\ fmtText # << >> => SystemContent # << >>

\* a text that opens with a heading and has a later heading was formatted:
\* the first heading is in the system content, the later one is not, and
\* the white space that ended the accumulated lines was removed
C14_Witness ==
    /\ Formatted
    /\ IsHeading(TextLinesOf(fmtText)[1])
    /\ BoundaryLines(fmtText) # {}
    /\ SystemContent # AccumulatedText(fmtText)
    /\ SystemContent # fmtText
    /\ IsTrimOf(SystemContent, AccumulatedText(fmtText))

=============================================================================
